---- MODULE Spec2Model ----
(***************************************************************************)
(* Model of the ObsPack surface-station Collection of co2_diag:            *)
(*   src/co2_diag/data_source/obspack/surface_stations/collection.py       *)
(* File discovery, station loading, normalisation, windowing, monthly      *)
(* resampling and the two recipes that drive them.                         *)
(*                                                                         *)
(* Representation:                                                         *)
(*   - a file name or a station code, where it is matched against a        *)
(*     pattern, is a sequence of one-character strings;                    *)
(*   - a timestamp is the integer YYYYMMDD (its order is the calendar      *)
(*     order, and the month of a timestamp is t \div 100);                 *)
(*   - a measurement is an integer mantissa; the dataset carries the       *)
(*     decimal exponent (mole fraction 0.000412 is 412 with exponent -6);  *)
(*   - a mean is an exact fraction <<numerator, denominator>> in lowest    *)
(*     terms; NaN is the string "NaN".                                     *)
(***************************************************************************)
EXTENDS Integers, Sequences, FiniteSets, TLC

VARIABLES
    pc,           \* position of the running invocation
    recipe,       \* which entry point is running
    datadir,      \* the files present in the data directory
    outer_merge_sorts,  \* whether the installed pandas orders an outer merge by key
    options,      \* the options dictionary handed to the recipe
    opts,         \* the parsed options (argparse Namespace)
    registry,     \* the inner dicts of the module-level station_dict
    stations,     \* the station codes still to load (loop of lines 464-496)
    file_list,    \* glob result of the station being loaded
    ds_obs_dict,  \* the local ds_obs_dict of _load_stations_by_namedict
    stepA,        \* self.stepA_original_datasets
    df,           \* self.df_combined_and_resampled
    error,        \* the exception that ended the invocation
    trace,        \* the pipeline steps performed by the invocation
    runs,         \* invocations started in this process
    arg,          \* the arguments of a function called on its own
    ret           \* what that call returned

vars == << pc, recipe, datadir, outer_merge_sorts, options, opts, registry,
           stations, file_list,
           ds_obs_dict, stepA, df, error, trace, runs, arg, ret >>

\* The variables of a function called on its own.
call == << arg, ret >>

NaN == "NaN"
None == "None"

-----------------------------------------------------------------------------
(* Sequences                                                               *)

Range(s) == { s[i] : i \in DOMAIN s }

\* The permutations of a finite set, as sequences without repetition.
Perms(S) ==
    { s \in [1..Cardinality(S) -> S] : \A i, j \in DOMAIN s : i # j => s[i] # s[j] }

RECURSIVE Concat(_)
\* The concatenation of a sequence of sequences.
Concat(ss) == IF ss = << >> THEN << >> ELSE Head(ss) \o Concat(Tail(ss))

-----------------------------------------------------------------------------
(* The station registry (station_dict, lines 21-227).  The model carries   *)
(* five of its keys, in source order.                                      *)

StationCodes == << "nmb", "brw", "inx", "inx05", "mlo" >>

StationKeys == Range(StationCodes)

StationName ==
    [ nmb   |-> "Gobabeb",
      brw   |-> "Barrow Atmospheric Baseline Observatory",
      inx   |-> "INFLUX (Indianapolis Flux Experiment)",
      inx05 |-> "INFLUX Site - tower 5",
      mlo   |-> "Mauna Loa, Hawaii" ]

\* The characters of the station codes the model uses (registry keys and the
\* unregistered codes that callers pass).
Chars ==
    [ nmb   |-> << "n", "m", "b" >>,
      brw   |-> << "b", "r", "w" >>,
      inx   |-> << "i", "n", "x" >>,
      inx05 |-> << "i", "n", "x", "0", "5" >>,
      mlo   |-> << "m", "l", "o" >>,
      xyz   |-> << "x", "y", "z" >>,
      MLO   |-> << "M", "L", "O" >>,
      asdkjhfasg |-> << "a", "s", "d", "k", "j", "h", "f", "a", "s", "g" >> ]

\* Mutant: a registry literal with an upper-case key and a key written twice.
station_dict_keys_mixed ==
    << << "n", "m", "b" >>, << "M", "L", "O" >>, << "b", "r", "w" >>,
       << "i", "n", "x" >>, << "i", "n", "x", "0", "5" >>,
       << "m", "l", "o" >>, << "m", "l", "o" >> >>

\* The keys of the station_dict literal, lines 22-227, in source order, each
\* as its characters.
station_dict_keys ==
    << << "n", "m", "b" >>, << "e", "s", "t" >>, << "a", "s", "k" >>, << "n", "o", "r" >>,
       << "b", "r", "w" >>, << "s", "p", "o" >>, << "w", "s", "a" >>, << "f", "s", "d" >>,
       << "h", "d", "p" >>, << "h", "t", "m" >>, << "i", "n", "x" >>, << "r", "r", "l" >>,
       << "s", "v", "b" >>, << "l", "i", "n" >>, << "k", "z", "m" >>, << "s", "s", "c" >>,
       << "t", "o", "h" >>, << "i", "n", "x", "0", "5" >>, << "e", "i", "c" >>, << "g", "a", "t" >>,
       << "o", "n", "g" >>, << "c", "i", "b" >>, << "s", "m", "o" >>, << "a", "b", "t" >>,
       << "h", "s", "u" >>, << "n", "a", "t" >>, << "p", "a", "l" >>, << "g", "i", "f" >>,
       << "s", "e", "y" >>, << "b", "c", "s" >>, << "a", "m", "t" >>, << "m", "l", "o" >>,
       << "i", "n", "x", "1", "4" >>, << "c", "p", "t" >>, << "m", "b", "o" >>, << "c", "y", "a" >>,
       << "o", "t", "a" >>, << "b", "a", "l" >>, << "k", "r", "e" >>, << "j", "f", "j" >>,
       << "o", "p", "w" >>, << "b", "h", "d" >>, << "o", "m", "p" >>, << "b", "n", "t" >>,
       << "a", "c", "v" >>, << "i", "n", "x", "0", "2" >>, << "h", "e", "i" >>, << "s", "d", "z" >>,
       << "b", "i", "r" >>, << "w", "i", "s" >>, << "m", "h", "d" >>, << "u", "s", "h" >>,
       << "p", "u", "y" >>, << "w", "l", "g" >>, << "i", "p", "r" >>, << "k", "a", "s" >>,
       << "p", "r", "s" >>, << "f", "p", "k" >>, << "r", "c", "e" >>, << "l", "m", "u" >>,
       << "d", "e", "c" >>, << "i", "n", "x", "1", "3" >>, << "m", "k", "n" >>, << "r", "b", "a" >>,
       << "s", "g", "p" >>, << "a", "l", "t" >>, << "m", "a", "a" >>, << "h", "p", "b" >>,
       << "m", "s", "h" >>, << "e", "s", "p" >>, << "g", "p", "a" >>, << "c", "d", "l" >>,
       << "s", "t", "r" >>, << "l", "e", "f" >>, << "y", "o", "n" >>, << "r", "u", "n" >>,
       << "c", "m", "n" >>, << "v", "a", "c" >>, << "i", "n", "x", "0", "4" >>, << "o", "x", "k" >>,
       << "r", "y", "o" >>, << "s", "p", "l" >>, << "c", "h", "m" >>, << "d", "s", "i" >>,
       << "w", "k", "t" >>, << "n", "w", "r" >>, << "s", "m", "r" >>, << "l", "p", "o" >>,
       << "s", "c", "t" >>, << "c", "h", "r" >>, << "t", "p", "d" >>, << "g", "o", "z" >>,
       << "o", "l", "i" >>, << "l", "u", "t" >>, << "i", "n", "x", "1", "2" >>, << "c", "b", "a" >>,
       << "k", "e", "y" >>, << "i", "z", "o" >>, << "w", "b", "i" >>, << "m", "e", "x" >>,
       << "s", "n", "p" >>, << "m", "i", "d" >>, << "c", "p", "s" >>, << "o", "b", "n" >>,
       << "a", "m", "s" >>, << "c", "i", "t" >>, << "i", "n", "x", "0", "3" >>, << "m", "q", "a" >>,
       << "k", "i", "t" >>, << "w", "a", "o" >>, << "a", "z", "r" >>, << "p", "d", "m" >>,
       << "o", "p", "e" >>, << "u", "t", "o" >>, << "u", "u", "m" >>, << "h", "b", "a" >>,
       << "s", "y", "o" >>, << "x", "i", "c" >>, << "i", "c", "e" >>, << "c", "r", "z" >>,
       << "i", "n", "u" >>, << "f", "k", "l" >>, << "c", "r", "v" >>, << "p", "s", "a" >>,
       << "i", "n", "x", "1", "1" >>, << "s", "t", "m" >>, << "r", "m", "m" >>, << "b", "m", "e" >>,
       << "e", "e", "c" >>, << "a", "r", "a" >>, << "c", "g", "o" >>, << "t", "r", "n" >>,
       << "e", "t", "l" >>, << "r", "g", "v" >>, << "a", "m", "e" >>, << "f", "n", "e" >>,
       << "r", "p", "b" >>, << "h", "n", "p" >>, << "s", "t", "p" >>, << "a", "s", "c" >>,
       << "l", "e", "w" >>, << "z", "e", "p" >>, << "b", "m", "w" >>, << "w", "g", "c" >>,
       << "e", "l", "l" >>, << "a", "b", "p" >>, << "b", "r", "a" >>, << "u", "t", "a" >>,
       << "i", "n", "x", "0", "8" >>, << "c", "p", "a" >>, << "e", "n", "a" >>, << "o", "w", "a" >>,
       << "s", "s", "l" >>, << "e", "g", "b" >>, << "b", "c", "k" >>, << "k", "u", "m" >>,
       << "s", "i", "s" >>, << "c", "f", "a" >>, << "c", "m", "o" >>, << "l", "l", "b" >>,
       << "b", "l", "k" >>, << "g", "i", "c" >>, << "c", "b", "y" >>, << "g", "m", "i" >>,
       << "b", "u" >>, << "c", "r", "i" >>, << "l", "j", "o" >>, << "l", "l", "n" >>,
       << "t", "a", "p" >>, << "i", "n", "x", "0", "7" >>, << "b", "s", "c" >>, << "t", "i", "k" >>,
       << "c", "h", "l" >>, << "p", "v" >>, << "l", "m", "p" >>, << "s", "g", "i" >>,
       << "b", "g", "u" >>, << "a", "o", "z" >>, << "s", "u", "m" >>, << "a", "v", "i" >>,
       << "s", "h", "m" >>, << "m", "r", "c" >>, << "o", "f", "r" >>, << "i", "n", "x", "0", "1" >>,
       << "m", "v", "y" >>, << "t", "h", "d" >>, << "m", "b", "c" >>, << "k", "z", "d" >>,
       << "a", "m", "y" >>, << "r", "k", "w" >>, << "m", "n", "m" >>, << "i", "n", "x", "1", "0" >>,
       << "b", "k", "t" >>, << "t", "a", "c" >>, << "o", "m", "t" >>, << "a", "c", "r" >>,
       << "s", "t", "c" >>, << "i", "n", "x", "0", "6" >>, << "h", "u", "n" >>, << "o", "y", "q" >>,
       << "p", "t", "a" >>, << "r", "k", "1" >>, << "m", "w", "o" >>, << "i", "n", "x", "0", "9" >>,
       << "a", "a", "c" >>, << "b", "a", "o" >> >>

-----------------------------------------------------------------------------
(* The files a data directory may hold.                                    *)

N_mlo_event ==
    << "c", "o", "2", "_", "m", "l", "o", "_", "s", "u", "r", "f", "a", "c", "e", "-", "i", "n", "s", "i", "t", "u", "_", "1", "_", "c", "c", "g", "g", "_", "e", "v", "e", "n", "t", ".", "n", "c" >>
N_mlo_flask ==
    << "c", "o", "2", "_", "m", "l", "o", "_", "s", "u", "r", "f", "a", "c", "e", "-", "f", "l", "a", "s", "k", "_", "1", "_", "c", "c", "g", "g", "_", "m", "o", "n", "t", "h", ".", "n", "c" >>
N_MLO_upper ==
    << "c", "o", "2", "_", "M", "L", "O", "_", "s", "u", "r", "f", "a", "c", "e", "-", "i", "n", "s", "i", "t", "u", "_", "1", "_", "c", "c", "g", "g", "_", "e", "v", "e", "n", "t", ".", "n", "c" >>
N_mlo_txt ==
    << "c", "o", "2", "_", "m", "l", "o", "_", "s", "u", "r", "f", "a", "c", "e", "-", "i", "n", "s", "i", "t", "u", "_", "1", "_", "c", "c", "g", "g", "_", "e", "v", "e", "n", "t", ".", "t", "x", "t" >>
N_brw_event ==
    << "c", "o", "2", "_", "b", "r", "w", "_", "s", "u", "r", "f", "a", "c", "e", "-", "i", "n", "s", "i", "t", "u", "_", "1", "_", "c", "c", "g", "g", "_", "e", "v", "e", "n", "t", ".", "n", "c" >>
N_brw_flask ==
    << "c", "o", "2", "_", "b", "r", "w", "_", "s", "u", "r", "f", "a", "c", "e", "-", "f", "l", "a", "s", "k", "_", "1", "_", "c", "c", "g", "g", "_", "m", "o", "n", "t", "h", ".", "n", "c" >>
N_inx05 ==
    << "c", "o", "2", "_", "i", "n", "x", "0", "5", "_", "s", "u", "r", "f", "a", "c", "e", "-", "i", "n", "s", "i", "t", "u", "_", "6", "0", "_", "a", "l", "l", "h", "o", "u", "r", "s", ".", "n", "c" >>
N_nmb ==
    << "c", "o", "2", "_", "n", "m", "b", "_", "s", "u", "r", "f", "a", "c", "e", "-", "f", "l", "a", "s", "k", "_", "1", "_", "c", "c", "g", "g", "_", "e", "v", "e", "n", "t", ".", "n", "c" >>
N_xco2 ==
    << "x", "c", "o", "2", "_", "m", "l", "o", "_", "s", "u", "r", "f", "a", "c", "e", ".", "n", "c" >>

\* The base name of each file.
FileName ==
    [ mlo_event |-> N_mlo_event, mlo_flask |-> N_mlo_flask,
      MLO_upper |-> N_MLO_upper, mlo_txt   |-> N_mlo_txt,
      brw_event |-> N_brw_event, brw_flask |-> N_brw_flask,
      inx05     |-> N_inx05,     nmb       |-> N_nmb,
      xco2      |-> N_xco2 ]

AllFiles == DOMAIN FileName

-----------------------------------------------------------------------------
(* File discovery: glob.glob(os.path.join(datadir, f"co2_{stationcode}*.nc")) *)

RECURSIVE FnMatch(_, _)
\* fnmatch of a name against a pattern whose only wildcard is "*"; on a
\* POSIX file system the comparison of characters is case-sensitive.
FnMatch(pat, name) ==
    IF pat = << >> THEN name = << >>
    ELSE IF Head(pat) = "*"
         THEN \/ FnMatch(Tail(pat), name)
              \/ (name # << >> /\ FnMatch(pat, Tail(name)))
         ELSE /\ name # << >>
              /\ Head(name) = Head(pat)
              /\ FnMatch(Tail(pat), Tail(name))

\* Mutant: the pattern without its leading "co2_" anchor, f"*{stationcode}*.nc".
StationPattern_unanchored(stationcode) ==
    << "*" >> \o Chars[stationcode] \o << "*", ".", "n", "c" >>

\* f"co2_{stationcode}*.nc"
StationPattern(stationcode) ==
    << "c", "o", "2", "_" >> \o Chars[stationcode] \o << "*", ".", "n", "c" >>

\* The files of directory dir that the station's pattern matches.
GlobSet(dir, stationcode) ==
    { f \in dir : FnMatch(StationPattern(stationcode), FileName[f]) }

\* glob.glob returns the matches in the order the file system enumerates them.
Glob(dir, stationcode) == Perms(GlobSet(dir, stationcode))

-----------------------------------------------------------------------------
(* Arithmetic: exact fractions for the means pandas and numpy compute.     *)

Abs(n) == IF n < 0 THEN -n ELSE n

RECURSIVE GCD(_, _)
GCD(a, b) == IF b = 0 THEN a ELSE GCD(b, a % b)

\* n/d in lowest terms, d > 0.
Frac(n, d) == LET g == GCD(Abs(n), d) IN << n \div g, d \div g >>

RECURSIVE Sum(_)
Sum(s) == IF s = << >> THEN 0 ELSE Head(s) + Sum(Tail(s))

\* numpy / pandas mean of a non-empty sequence of integers.
Mean(s) == Frac(Sum(s), Len(s))

Min(S) == CHOOSE x \in S : \A y \in S : x <= y
Max(S) == CHOOSE x \in S : \A y \in S : y <= x

RECURSIVE SortedSeq(_)
\* The elements of a finite set of integers in ascending order.
SortedSeq(S) == IF S = {} THEN << >> ELSE << Min(S) >> \o SortedSeq(S \ {Min(S)})

-----------------------------------------------------------------------------
(* The content of the files: observations in file order, each with its     *)
(* time (YYYYMMDD) and its value (mole fraction, in units of 1e-6), and    *)
(* the file's site coordinates and altitude units attribute.               *)

Obs(t, v) == [time |-> t, value |-> v]

FileObs ==
    [ mlo_event |-> << Obs(20000115, 412), Obs(20000101, 410), Obs(20000131, 414),
                       Obs(20000310, 416), Obs(20010101, 420) >>,
      mlo_flask |-> << Obs(20000101, 411), Obs(19991215, 408) >>,
      MLO_upper |-> << Obs(20000101, 409) >>,
      mlo_txt   |-> << >>,
      brw_event |-> << Obs(20000601, 400), Obs(20000615, 402) >>,
      brw_flask |-> << Obs(20000701, 401) >>,
      inx05     |-> << Obs(20000105, 430) >>,
      nmb       |-> << Obs(20000201, 405) >>,
      xco2      |-> << Obs(20000101, 399) >> ]

FileSite ==
    [ mlo_event |-> [latitude |-> 20,  longitude |-> -156, altitude |-> 3397],
      mlo_flask |-> [latitude |-> 19,  longitude |-> -155, altitude |-> 3437],
      MLO_upper |-> [latitude |-> 20,  longitude |-> -156, altitude |-> 3397],
      mlo_txt   |-> [latitude |-> 20,  longitude |-> -156, altitude |-> 3397],
      brw_event |-> [latitude |-> 71,  longitude |-> -157, altitude |-> 11],
      brw_flask |-> [latitude |-> 71,  longitude |-> -157, altitude |-> 13],
      inx05     |-> [latitude |-> 40,  longitude |-> -86,  altitude |-> 250],
      nmb       |-> [latitude |-> -24, longitude |-> 15,   altitude |-> 456],
      xco2      |-> [latitude |-> 20,  longitude |-> -156, altitude |-> 3397] ]

\* ds['altitude'].attrs['units'] of each file.
FileAltUnits ==
    [ f \in AllFiles |-> IF f = "brw_flask" THEN "km" ELSE "m" ]

\* The rows of one opened file along its 'obs' dimension.
FileRows(f) ==
    [ i \in DOMAIN FileObs[f] |->
        [ time      |-> FileObs[f][i].time,
          value     |-> FileObs[f][i].value,
          latitude  |-> FileSite[f].latitude,
          longitude |-> FileSite[f].longitude,
          altitude  |-> FileSite[f].altitude ] ]

-----------------------------------------------------------------------------
(* Loading: dataset_from_filelist(file_list), line 473.  The function is   *)
(* imported from co2_diag.data_source.obspack.load; it receives the file   *)
(* list and nothing else.                                                  *)

Raise(kind, names) == [kind |-> kind, names |-> names]

NoError == [kind |-> None, names |-> {}]

\* The files opened without time decoding and concatenated along 'obs' in
\* list order; the variables' attributes are those of the first file.  An
\* empty list raises; the error can name nothing, no station and no
\* directory being among the arguments.
dataset_from_filelist(files) ==
    IF files = << >>
    THEN [ok |-> FALSE, error |-> Raise("MissingDataError", {})]
    ELSE [ok |-> TRUE,
          ds |-> [ rows      |-> Concat([i \in DOMAIN files |-> FileRows(files[i])]),
                   alt_units |-> FileAltUnits[files[1]],
                   dim       |-> "obs",
                   coords    |-> {},
                   timeenc   |-> "numeric",
                   var       |-> "value",
                   exp       |-> -6,
                   steps     |-> << >> ]]

\* Mutant: the units check left out.
check_altitude_unit_skipped(ds) == TRUE

\* lines 475-478: the altitude units check.
check_altitude_unit(ds) == ds.alt_units = "m"

Column(rows, field) == [i \in DOMAIN rows |-> rows[i][field]]

\* Mutant: the mean longitude stored as it is.
station_latlonalt_unwrapped(ds) ==
    [ lat  |-> Mean(Column(ds.rows, "latitude")),
      lon  |-> Mean(Column(ds.rows, "longitude")),
      alts |-> Mean(Column(ds.rows, "altitude")) ]

\* lines 480-493: the mean latitude, longitude (a negative mean is moved up
\* by 360) and altitude of the loaded points.
station_latlonalt(ds) ==
    LET lats    == Column(ds.rows, "latitude")
        lons    == Column(ds.rows, "longitude")
        alts    == Column(ds.rows, "altitude")
        meanlon == Mean(lons)
    IN  [ lat  |-> Mean(lats),
          lon  |-> IF meanlon[1] < 0
                   THEN << meanlon[1] + 360 * meanlon[2], meanlon[2] >>
                   ELSE meanlon,
          alts |-> Mean(alts) ]

-----------------------------------------------------------------------------
(* Normalisation: the method chain of lines 502-509.  Each method returns  *)
(* a new dataset; the field steps records the methods that produced it, in *)
(* the order they were applied.                                            *)

Applied(ds, step) == Append(ds.steps, step)

\* .set_coords(['time', 'time_decimal', 'latitude', 'longitude', 'altitude'])
set_coords(ds) ==
    [ds EXCEPT !.coords = {"time", "time_decimal", "latitude", "longitude", "altitude"},
               !.steps  = Applied(ds, "set_coords")]

RECURSIVE StableSortByTime(_)
\* Rows in ascending time, rows of equal time in their previous order.
StableSortByTime(rows) ==
    IF rows = << >> THEN << >>
    ELSE LET n     == Len(rows)
             front == StableSortByTime(SubSeq(rows, 1, n - 1))
             last  == rows[n]
         IN  SelectSeq(front, LAMBDA r : r.time <= last.time)
                 \o << last >>
                 \o SelectSeq(front, LAMBDA r : r.time > last.time)

\* Mutant: the rows left in the order of the concatenation.
sortby_unsorted(ds) == [ds EXCEPT !.steps = Applied(ds, "sortby")]

\* .sortby(['time'])
sortby(ds) ==
    [ds EXCEPT !.rows = StableSortByTime(ds.rows), !.steps = Applied(ds, "sortby")]

\* .swap_dims({"obs": "time"})
swap_dims(ds) == [ds EXCEPT !.dim = "time", !.steps = Applied(ds, "swap_dims")]

\* .pipe(ensure_dataset_datetime64)
ensure_dataset_datetime64(ds) ==
    [ds EXCEPT !.timeenc = "datetime64",
               !.steps   = Applied(ds, "ensure_dataset_datetime64")]

\* .rename({'value': 'co2'})
rename(ds) ==
    [ ds EXCEPT !.var = "co2",
                !.steps = Applied(ds, "rename"),
                !.rows = [ i \in DOMAIN ds.rows |->
                            [ time      |-> ds.rows[i].time,
                              co2       |-> ds.rows[i].value,
                              latitude  |-> ds.rows[i].latitude,
                              longitude |-> ds.rows[i].longitude,
                              altitude  |-> ds.rows[i].altitude ] ] ]

\* .pipe(co2_molfrac_to_ppm, co2_var_name='co2'): times 1e6.
co2_molfrac_to_ppm(ds) ==
    [ds EXCEPT !.exp = ds.exp + 6, !.steps = Applied(ds, "co2_molfrac_to_ppm")]

\* Mutant: the dimension swapped before the coordinates are set and the rows
\* sorted.
Wrangle_swap_first(ds) ==
    co2_molfrac_to_ppm(rename(ensure_dataset_datetime64(sortby(set_coords(swap_dims(ds))))))

\* Mutant: the units converted a second time.
Wrangle_convert_twice(ds) ==
    co2_molfrac_to_ppm(co2_molfrac_to_ppm(
        rename(ensure_dataset_datetime64(swap_dims(sortby(set_coords(ds)))))))

\* lines 502-509
Wrangle(ds) ==
    co2_molfrac_to_ppm(rename(ensure_dataset_datetime64(swap_dims(sortby(set_coords(ds))))))

-----------------------------------------------------------------------------
(* Windowing: select_between, imported from co2_diag.operations.time.      *)

RECURSIVE PickRows(_, _, _)
\* The rows whose index is in keep, in order, from index i on.
PickRows(rows, keep, i) ==
    IF i > Len(rows) THEN << >>
    ELSE (IF i \in keep THEN << rows[i] >> ELSE << >>) \o PickRows(rows, keep, i + 1)

\* Of rows sharing a timestamp, the first is kept.
DropDuplicateTimes(rows) ==
    PickRows(rows,
             { i \in DOMAIN rows : \A j \in 1..(i - 1) : rows[j].time # rows[i].time },
             1)

\* The rows with timestart <= time <= timeend, restricted to the variables of
\* varlist, duplicate timestamps dropped when drop_dups is set.
select_between(dataset, timestart, timeend, varlist, drop_dups) ==
    LET inside == SelectSeq(dataset.rows,
                            LAMBDA r : timestart <= r.time /\ r.time <= timeend)
        fields == [ i \in DOMAIN inside |-> [ v \in varlist |-> inside[i][v] ] ]
    IN  [ dataset EXCEPT !.rows = IF drop_dups THEN DropDuplicateTimes(fields)
                                  ELSE fields ]

-----------------------------------------------------------------------------
(* Monthly resampling and the combined table: get_resampled_dataframe,     *)
(* lines 373-424.                                                          *)

\* The calendar month (YYYYMM) of a timestamp, and the month's first day.
MonthOf(t) == t \div 100

\* Mutant: the bins labelled with the middle of the month.
MonthStart_mid(m) == m * 100 + 15

MonthStart(m) == m * 100 + 1
NextMonth(m) == IF m % 100 = 12 THEN m + 89 ELSE m + 1

RECURSIVE MonthRange(_, _)
\* The months from first to last, both included.
MonthRange(first, last) ==
    IF first > last THEN << >> ELSE << first >> \o MonthRange(NextMonth(first), last)

\* Mutant: duplicate timestamps kept (drop_dups=False).
ds_sub_obs_keepdups(dataset_obs, timestart, timeend) ==
    select_between(dataset_obs, timestart, timeend, {"time", "co2"}, FALSE)

\* Mutant: the window's end not applied.
ds_sub_obs_openend(dataset_obs, timestart, timeend) ==
    select_between(dataset_obs, timestart, 99991231, {"time", "co2"}, TRUE)

\* Mutant: the window's start not applied.
ds_sub_obs_openstart(dataset_obs, timestart, timeend) ==
    select_between(dataset_obs, 0, timeend, {"time", "co2"}, TRUE)

\* lines 392-395
ds_sub_obs(dataset_obs, timestart, timeend) ==
    select_between(dataset_obs, timestart, timeend, {"time", "co2"}, TRUE)

\* lines 397-398: .to_dataframe().reset_index(), co2 renamed; the column
\* holds floating-point numbers, here fractions.
df_prepd_obs_orig(sub) ==
    [ i \in DOMAIN sub.rows |->
        [ time |-> sub.rows[i].time,
          obs_original_resolution |-> Frac(sub.rows[i].co2, 1) ] ]

\* line 402: .resample(time="1MS").mean().  One bin per calendar month from
\* the month of the earliest row to the month of the latest, labelled with
\* the month's first day; the mean of a month without rows is NaN.
ds_resampled(sub) ==
    LET times  == { sub.rows[i].time : i \in DOMAIN sub.rows }
        months == MonthRange(MonthOf(Min(times)), MonthOf(Max(times)))
    IN  [ k \in DOMAIN months |->
            LET inbin == SelectSeq(sub.rows, LAMBDA r : MonthOf(r.time) = months[k])
            IN  [ time |-> MonthStart(months[k]),
                  co2  |-> IF inbin = << >> THEN NaN
                           ELSE Mean(Column(inbin, "co2")) ] ]

\* Mutant: the months without observations kept.
dropna_keepall(rows) == rows

\* line 409: .dropna(dim=('time'))
dropna(rows) == SelectSeq(rows, LAMBDA r : r.co2 # NaN)

\* lines 408-412
df_prepd_obs_resamp(sub) ==
    LET kept == dropna(ds_resampled(sub))
    IN  [ i \in DOMAIN kept |->
            [ time |-> kept[i].time, obs_resampled_resolution |-> kept[i].co2 ] ]

RECURSIVE MergeKeys(_, _, _)
\* The rows of an outer merge for the keys of keyseq: a row for every pair of
\* a left and a right row with the key, and for a key one side lacks, the
\* other side's rows with NaN in the missing column.
MergeKeys(keyseq, left, right) ==
    IF keyseq = << >> THEN << >>
    ELSE LET k  == Head(keyseq)
             ls == SelectSeq(left, LAMBDA r : r.time = k)
             rs == SelectSeq(right, LAMBDA r : r.time = k)
             row(l, r) == [ time |-> k,
                            obs_original_resolution  |-> r,
                            obs_resampled_resolution |-> l ]
             here ==
                IF rs = << >>
                THEN [ i \in DOMAIN ls |-> row(ls[i].obs_resampled_resolution, NaN) ]
                ELSE IF ls = << >>
                THEN [ j \in DOMAIN rs |-> row(NaN, rs[j].obs_original_resolution) ]
                ELSE [ n \in 1..(Len(ls) * Len(rs)) |->
                         row(ls[((n - 1) \div Len(rs)) + 1].obs_resampled_resolution,
                             rs[((n - 1) % Len(rs)) + 1].obs_original_resolution) ]
         IN  here \o MergeKeys(Tail(keyseq), left, right)

\* Mutant: how='left', only the keys of the resampled table.
merge_left(left, right) ==
    MergeKeys(SortedSeq({ left[i].time : i \in DOMAIN left }), left, right)

\* lines 415-419: .merge(df_prepd_obs_orig, on='time', how='outer'), sort
\* left at its default False.  The rows are grouped by key; pandas 2.2 and
\* later order the keys of an outer merge, earlier versions take them in the
\* order of their first appearance, the left frame's before the right's.
merge_outer(left, right) ==
    MergeKeys(IF outer_merge_sorts
              THEN SortedSeq({ left[i].time : i \in DOMAIN left }
                                 \cup { right[j].time : j \in DOMAIN right })
              ELSE Column(DropDuplicateTimes(left \o right), "time"),
              left, right)

\* The whole of get_resampled_dataframe.  With no row in the window there is
\* nothing to resample and df_prepd.iloc[0, :] (line 421) has no row to take.
get_resampled_dataframe(dataset_obs, timestart, timeend) ==
    LET sub == ds_sub_obs(dataset_obs, timestart, timeend)
    IN  IF sub.rows = << >>
        THEN [ok |-> FALSE, error |-> Raise("IndexError", {})]
        ELSE [ok |-> TRUE,
              df |-> merge_outer(df_prepd_obs_resamp(sub), df_prepd_obs_orig(sub))]

-----------------------------------------------------------------------------
(* Recipe options.  A year option is a string, here its characters.        *)

Y2000   == << "2", "0", "0", "0" >>
Y2001   == << "2", "0", "0", "1" >>
Y198012 == << "1", "9", "8", "0", "1", "2" >>
Y201042 == << "2", "0", "1", "0", "4", "2" >>

DigitValue ==
    [ c \in {"0", "1", "2", "3", "4", "5", "6", "7", "8", "9"} |->
        CASE c = "0" -> 0 [] c = "1" -> 1 [] c = "2" -> 2 [] c = "3" -> 3
          [] c = "4" -> 4 [] c = "5" -> 5 [] c = "6" -> 6 [] c = "7" -> 7
          [] c = "8" -> 8 [] c = "9" -> 9 ]

RECURSIVE DecimalValue(_)
DecimalValue(s) ==
    IF s = << >> THEN 0
    ELSE 10 * DecimalValue(SubSeq(s, 1, Len(s) - 1)) + DigitValue[s[Len(s)]]

\* The year type of the shared recipe arguments: a year is four digits.
valid_year_string(s) ==
    /\ Len(s) = 4
    /\ \A i \in DOMAIN s : s[i] \in DOMAIN DigitValue

\* lines 631-632: parser.add_argument('--station_code', default='mlo',
\*                                    type=str, choices=station_dict.keys())
station_code_default == "mlo"

\* Mutant: the argument added without choices.
station_code_any(code) == TRUE

station_code_choices(code) == code \in StationKeys

\* parse_recipe_options(options, add_surface_station_collection_args_to_parser),
\* imported from co2_diag.recipes.utils: the Namespaces the parser can return,
\* none when it ends the process (argparse's error exit).  start_datetime is
\* the first day of start_yr; end_datetime falls in end_yr, on its first or
\* on its last day.
parse_recipe_options(o) ==
    LET code == IF o.station_code = None THEN station_code_default
                ELSE o.station_code
    IN  IF /\ station_code_choices(code)
           /\ valid_year_string(o.start_yr)
           /\ valid_year_string(o.end_yr)
        THEN { [ station_code   |-> code,
                 start_yr       |-> o.start_yr,
                 end_yr         |-> o.end_yr,
                 start_datetime |-> DecimalValue(o.start_yr) * 10000 + 101,
                 end_datetime   |-> DecimalValue(o.end_yr) * 10000 + md ]
               : md \in {101, 1231} }
        ELSE {}

-----------------------------------------------------------------------------
(* State                                                                   *)

\* The most invocations one process makes.
MaxRuns == 2

NoneRec == [none |-> TRUE]

EmptyDict == [c \in {} |-> NoneRec]

\* d[k] = v of a Python dict.
Put(d, k, v) == [c \in DOMAIN d \cup {k} |-> IF c = k THEN v ELSE d[c]]

\* The data directories an invocation may be pointed at.
DataDirs ==
    { {},
      {"mlo_event"},
      {"mlo_flask"},
      {"mlo_event", "mlo_flask"},
      {"brw_flask"},
      {"brw_event", "brw_flask"},
      {"mlo_event", "MLO_upper", "mlo_txt", "xco2"},
      {"nmb", "brw_event", "inx05", "mlo_event"},
      {"nmb", "brw_flask", "inx05", "mlo_event"} }

TimeseriesOptions ==
    [ station_code : {None, "mlo", "brw", "inx", "asdkjhfasg"},
      start_yr     : {Y2000, Y2001, Y198012},
      end_yr       : {Y2000, Y2001, Y201042} ]

AnnualOptions ==
    [ station_code : {"mlo", "asdkjhfasg"},
      start_yr     : {Y2000, Y198012},
      end_yr       : {Y2001} ]

\* station_name of preprocess: absent, a string, or a list of strings.
StationNames ==
    { [kind |-> "none"],
      [kind |-> "str", code |-> "mlo"],
      [kind |-> "str", code |-> "xyz"],
      [kind |-> "list", codes |-> << "brw", "mlo" >>],
      [kind |-> "list", codes |-> << "mlo", "mlo" >>] }

\* station_dict as the module defines it: every entry holds the name only.
StaticRegistry == [ c \in StationKeys |-> [name |-> StationName[c]] ]

Fresh ==
    /\ recipe = None
    /\ options = NoneRec
    /\ opts = NoneRec
    /\ stations = << >>
    /\ file_list = << >>
    /\ ds_obs_dict = EmptyDict
    /\ stepA = NoneRec
    /\ df = NoneRec
    /\ error = NoError
    /\ trace = {}

Init ==
    /\ pc = "idle"
    /\ datadir \in DataDirs
    /\ outer_merge_sorts \in BOOLEAN
    /\ registry = StaticRegistry
    /\ runs = 0
    /\ Fresh
    /\ arg = NoneRec
    /\ ret = NoneRec

-----------------------------------------------------------------------------
(* The entry points.  An invocation starts when none is running; the       *)
(* module-level station_dict lives on from one invocation to the next.     *)

Begin(r, o) ==
    /\ pc = "idle"
    /\ runs < MaxRuns
    /\ runs' = runs + 1
    /\ recipe' = r
    /\ options' = o
    /\ UNCHANGED << datadir, outer_merge_sorts, opts, registry, stations, file_list, ds_obs_dict,
                    stepA, df, error, trace, call >>

\* Collection.run_recipe_for_timeseries(options=o), lines 247-291
run_recipe_for_timeseries ==
    \E o \in TimeseriesOptions : Begin("timeseries", o) /\ pc' = "parse"

\* Collection.run_recipe_for_annual_series(options=o), lines 293-348
run_recipe_for_annual_series ==
    \E o \in AnnualOptions : Begin("annual", o) /\ pc' = "parse"

\* Collection().preprocess(datadir, station_name), as the tests call it
call_preprocess ==
    \E n \in StationNames : Begin("preprocess", [station_name |-> n]) /\ pc' = "new"

Fail(e) ==
    /\ pc' = "raised"
    /\ error' = e

\* Mutant: the options taken as given, the parser not run.
ParseOptionsUnchecked ==
    /\ pc = "parse"
    /\ trace' = trace \cup {"parse"}
    /\ opts' = [ station_code   |-> IF options.station_code = None
                                    THEN station_code_default
                                    ELSE options.station_code,
                 start_yr       |-> options.start_yr,
                 end_yr         |-> options.end_yr,
                 start_datetime |-> DecimalValue(options.start_yr) * 10000 + 101,
                 end_datetime   |-> DecimalValue(options.end_yr) * 10000 + 1231 ]
    /\ pc' = "new"
    /\ UNCHANGED << recipe, datadir, outer_merge_sorts, options, registry, stations, file_list,
                    ds_obs_dict, stepA, df, error, runs, call >>

\* lines 270-271 and 315-316: the options are parsed before anything else.
ParseOptions ==
    /\ pc = "parse"
    /\ trace' = trace \cup {"parse"}
    /\ IF parse_recipe_options(options) = {}
       THEN /\ pc' = "exit"
            /\ error' = Raise("SystemExit", {})
            /\ opts' = opts
       ELSE /\ opts' \in parse_recipe_options(options)
            /\ pc' = "new"
            /\ error' = error
    /\ UNCHANGED << recipe, datadir, outer_merge_sorts, options, registry, stations, file_list,
                    ds_obs_dict, stepA, df, runs, call >>

\* lines 231-245 (and 274, 319): the instance's station_dict is a shallow copy
\* of the module's, so its entries are the module's inner dicts.
NewInstance ==
    /\ pc = "new"
    /\ df' = NoneRec
    /\ pc' = "preprocess"
    /\ trace' = trace \cup {"new"}
    /\ UNCHANGED << recipe, datadir, outer_merge_sorts, options, opts, registry, stations, file_list,
                    ds_obs_dict, stepA, error, runs, call >>

\* The station_name argument of the call of preprocess at lines 278 and 323.
station_name_argument ==
    CASE recipe = "timeseries" -> [kind |-> "str", code |-> opts.station_code]
      [] recipe = "annual"     -> [kind |-> "none"]
      [] OTHER                 -> options.station_name

\* The keys of dict((k, ...) for k in codes): each code once, in the order of
\* its first occurrence.
DictKeys(codes) ==
    SelectSeq([ i \in DOMAIN codes |->
                  IF \E j \in 1..(i - 1) : codes[j] = codes[i] THEN None ELSE codes[i] ],
              LAMBDA c : c # None)

\* Mutant: the station_name argument ignored, every station loaded.
requested_stations_all(n) == StationCodes

\* lines 361-368: the codes of the stations to load, in dict order.
requested_stations(n) ==
    CASE n.kind = "none" -> StationCodes
      [] n.kind = "str"  -> << n.code >>
      [] n.kind = "list" -> IF n.codes = << >> THEN StationCodes ELSE DictKeys(n.codes)

\* lines 350-368 and 463: self.station_dict[k] raises KeyError for a code
\* the registry lacks.
Preprocess ==
    /\ pc = "preprocess"
    /\ LET codes == requested_stations(station_name_argument)
       IN  IF \E i \in DOMAIN codes : codes[i] \notin DOMAIN registry
           THEN /\ Fail(Raise("KeyError", { codes[i] : i \in DOMAIN codes } \ DOMAIN registry))
                /\ UNCHANGED << stations, trace >>
           ELSE /\ stations' = codes
                /\ pc' = "load"
                /\ error' = error
                /\ trace' = trace \cup {"preprocess"}
    /\ ds_obs_dict' = EmptyDict
    /\ UNCHANGED << recipe, datadir, outer_merge_sorts, options, opts, registry, file_list, stepA, df, runs, call >>

\* lines 464-496: one iteration of the loop over the stations.
LoadStation ==
    /\ pc = "load"
    /\ stations # << >>
    /\ LET stationcode == Head(stations)
       IN  \E fl \in Glob(datadir, stationcode) :
             LET loaded == dataset_from_filelist(fl)
             IN  /\ file_list' = fl
                 /\ IF ~loaded.ok
                    THEN /\ Fail(loaded.error)
                         /\ trace' = trace \cup {"glob"}
                         /\ UNCHANGED << ds_obs_dict, registry, stations >>
                    ELSE /\ ds_obs_dict' = Put(ds_obs_dict, stationcode, loaded.ds)
                         /\ IF ~check_altitude_unit(loaded.ds)
                            THEN /\ Fail(Raise("ValueError", {loaded.ds.alt_units}))
                                 /\ trace' = trace \cup {"glob", "load"}
                                 /\ UNCHANGED << registry, stations >>
                            ELSE /\ registry' =
                                      [ registry EXCEPT ![stationcode] =
                                          station_latlonalt(loaded.ds) @@ @ ]
                                 /\ stations' = Tail(stations)
                                 /\ trace' = trace \cup {"glob", "load", "metadata"}
                                 /\ UNCHANGED << pc, error >>
    /\ UNCHANGED << recipe, datadir, outer_merge_sorts, options, opts, stepA, df, runs, call >>

\* lines 498-516 and 370: every loaded dataset is normalised and the dict
\* becomes stepA_original_datasets.
WrangleAll ==
    /\ pc = "load"
    /\ stations = << >>
    /\ ds_obs_dict' = [ k \in DOMAIN ds_obs_dict |-> Wrangle(ds_obs_dict[k]) ]
    /\ stepA' = [datasets |-> ds_obs_dict']
    /\ trace' = trace \cup {"wrangle"}
    /\ pc' = IF recipe = "preprocess" THEN "done" ELSE "resample"
    /\ UNCHANGED << recipe, datadir, outer_merge_sorts, options, opts, registry, stations, file_list,
                    df, error, runs, call >>

\* lines 280-284 and 327-331
Resample ==
    /\ pc = "resample"
    /\ trace' = trace \cup {"resample"}
    /\ LET r == get_resampled_dataframe(stepA.datasets[opts.station_code],
                                        opts.start_datetime, opts.end_datetime)
       IN  IF r.ok
           THEN /\ df' = [rows |-> r.df]
                /\ pc' = "plot"
                /\ error' = error
           ELSE /\ Fail(r.error)
                /\ df' = df
    /\ UNCHANGED << recipe, datadir, outer_merge_sorts, options, opts, registry, stations, file_list,
                    ds_obs_dict, stepA, runs, call >>

\* lines 286-291 and 333-348: the figure is drawn and new_self returned.
PlotAndReturn ==
    /\ pc = "plot"
    /\ pc' = "done"
    /\ trace' = trace \cup {"plot"}
    /\ UNCHANGED << recipe, datadir, outer_merge_sorts, options, opts, registry, stations, file_list,
                    ds_obs_dict, stepA, df, error, runs, call >>

\* The invocation is over (it returned, raised, or exited as the tests'
\* pytest.raises(SystemExit) lets it); the instance is dropped, the module's
\* station_dict stays.
NextInvocation ==
    /\ pc \in {"done", "raised", "exit"}
    /\ pc' = "idle"
    /\ recipe' = None
    /\ options' = NoneRec
    /\ opts' = NoneRec
    /\ stations' = << >>
    /\ file_list' = << >>
    /\ ds_obs_dict' = EmptyDict
    /\ stepA' = NoneRec
    /\ df' = NoneRec
    /\ error' = NoError
    /\ trace' = {}
    /\ UNCHANGED << datadir, outer_merge_sorts, registry, runs, call >>

Next ==
    \/ run_recipe_for_timeseries
    \/ run_recipe_for_annual_series
    \/ call_preprocess
    \/ ParseOptions
    \/ NewInstance
    \/ Preprocess
    \/ LoadStation
    \/ WrangleAll
    \/ Resample
    \/ PlotAndReturn
    \/ NextInvocation

Spec == Init /\ [][Next]_vars

-----------------------------------------------------------------------------
(* File discovery called on its own, over any directory and station code.  *)

InitCall ==
    /\ pc = "call"
    /\ ret = NoneRec
    /\ datadir = {}
    /\ outer_merge_sorts \in BOOLEAN
    /\ registry = StaticRegistry
    /\ runs = 0
    /\ Fresh

InitDiscovery ==
    /\ InitCall
    /\ arg \in [ dir : SUBSET AllFiles, stationcode : DOMAIN Chars ]

pipeline == << recipe, datadir, outer_merge_sorts, options, opts, registry,
               stations, file_list,
               ds_obs_dict, stepA, df, error, trace, runs >>

\* line 468
Discover ==
    /\ pc = "call"
    /\ \E fl \in Glob(arg.dir, arg.stationcode) : ret' = [file_list |-> fl]
    /\ pc' = "returned"
    /\ UNCHANGED << arg, pipeline >>

NextDiscovery == Discover

SpecDiscovery == InitDiscovery /\ [][NextDiscovery]_vars

-----------------------------------------------------------------------------
(* get_resampled_dataframe called on its own, over normalised datasets     *)
(* (rows in ascending time, timestamps possibly repeated) and windows.     *)

\* The most rows of a dataset handed to get_resampled_dataframe.
MaxObs == 3

ObsTimes == {20000101, 20000115, 20000131, 20000301, 20000310, 20001231, 20010101}

ObsValues == {410, 412, 414}

Windows ==
    { << 20000101, 20001231 >>, << 20000115, 20001231 >>,
      << 20000101, 20000101 >>, << 20000201, 20010101 >> }

NormalisedRows ==
    UNION { { s \in [1..n -> [time : ObsTimes, co2 : ObsValues]] :
                \A i \in 1..(n - 1) : s[i].time <= s[i + 1].time }
            : n \in 0..MaxObs }

NormalisedDataset(rows) ==
    [ rows      |-> rows,
      alt_units |-> "m",
      dim       |-> "time",
      coords    |-> {"time", "time_decimal", "latitude", "longitude", "altitude"},
      timeenc   |-> "datetime64",
      var       |-> "co2",
      exp       |-> 0,
      steps     |-> << "set_coords", "sortby", "swap_dims",
                       "ensure_dataset_datetime64", "rename", "co2_molfrac_to_ppm" >> ]

InitResample ==
    /\ InitCall
    /\ arg \in [ dataset_obs : { NormalisedDataset(r) : r \in NormalisedRows },
                 window      : Windows ]

\* lines 373-424; the locals ds_sub_obs and df_prepd_obs_resamp are kept
\* beside the result.
CallResample ==
    /\ pc = "call"
    /\ LET timestart == arg.window[1]
           timeend   == arg.window[2]
           sub       == ds_sub_obs(arg.dataset_obs, timestart, timeend)
           r         == get_resampled_dataframe(arg.dataset_obs, timestart, timeend)
       IN  ret' = [ ok         |-> r.ok,
                    df         |-> IF r.ok THEN r.df ELSE << >>,
                    ds_sub_obs |-> sub.rows,
                    df_prepd_obs_resamp |->
                        IF r.ok THEN df_prepd_obs_resamp(sub) ELSE << >> ]
    /\ pc' = "returned"
    /\ UNCHANGED << arg, pipeline >>

NextResample == CallResample

SpecResample == InitResample /\ [][NextResample]_vars

-----------------------------------------------------------------------------
(* The station metadata of lines 480-496 computed on its own, over any     *)
(* loaded points with longitudes in [-180, 360).                           *)

\* The most points of a loaded dataset.
MaxPoints == 3

Points ==
    [ latitude  : {-24, 71},
      longitude : {-180, -1, 0, 359},
      altitude  : {11, 3397} ]

InitMetadata ==
    /\ InitCall
    /\ arg \in [ stationcode : {"mlo"},
                 rows : UNION { [1..n -> Points] : n \in 1..MaxPoints } ]

\* lines 480-496: station_dict[stationcode].update(station_latlonalt)
StoreMetadata ==
    /\ pc = "call"
    /\ ret' = station_latlonalt([rows |-> arg.rows]) @@ StaticRegistry[arg.stationcode]
    /\ pc' = "returned"
    /\ UNCHANGED << arg, pipeline >>

NextMetadata == StoreMetadata

SpecMetadata == InitMetadata /\ [][NextMetadata]_vars

-----------------------------------------------------------------------------
(* The recipe surface_trends (src/co2_diag/recipes/surface_trends.py),     *)
(* from the series Confrontation.looper(how='trend') hands back.  A series *)
(* is a function from its time points to its values (ppm).                 *)

TrendTimes == {20000101, 20000201, 20000301}

\* opts.difference: Python's None (the default), False or True.
DifferenceOptions == {None, "False", "True"}

\* if opts.difference:
Truthy(v) == v \notin {None, "False"}

\* What conf.looper(how='trend') returns: the observed and the model series,
\* aligned on one time axis.
LooperResults ==
    UNION { [ ydata_obs : [axis -> {409, 412}], ydata_mdl : [axis -> {410, 412}] ]
            : axis \in SUBSET TrendTimes }

InitTrends ==
    /\ InitCall
    /\ arg \in [ difference : DifferenceOptions, looper : LooperResults ]

\* Mutant: the observations minus the model.
da_RefMinusTest(ydata_mdl, ydata_obs) ==
    [ t \in DOMAIN ydata_mdl \cap DOMAIN ydata_obs |-> ydata_obs[t] - ydata_mdl[t] ]

\* line 87: (ydata_mdl - ydata_obs), the values at the same time.
da_TestMinusRef(ydata_mdl, ydata_obs) ==
    [ t \in DOMAIN ydata_mdl \cap DOMAIN ydata_obs |-> ydata_mdl[t] - ydata_obs[t] ]

\* lines 77-123
surface_trends ==
    /\ pc = "call"
    /\ LET ydata_mdl == arg.looper.ydata_mdl
           ydata_obs == arg.looper.ydata_obs
       IN  ret' = IF Truthy(arg.difference)
                  THEN [ model |-> ydata_mdl, obs |-> ydata_obs,
                         diff  |-> da_TestMinusRef(ydata_mdl, ydata_obs) ]
                  ELSE [ model |-> ydata_mdl, obs |-> ydata_obs ]
    /\ pc' = "returned"
    /\ UNCHANGED << arg, pipeline >>

NextTrends == surface_trends

SpecTrends == InitTrends /\ [][NextTrends]_vars

-----------------------------------------------------------------------------
(* get_dict_of_all_station_filenames(datadir), lines 586-613, called on    *)
(* its own.                                                                *)

\* The most files of a directory handed to get_dict_of_all_station_filenames.
MaxDirFiles == 3

\* line 599: glob.glob(datadir + '*surface*.nc'), in the order the file
\* system enumerates the matches; line 600 takes the base names.
filepath_list(dir) ==
    Perms({ f \in dir :
              FnMatch(<< "*", "s", "u", "r", "f", "a", "c", "e", "*", ".", "n", "c" >>,
                      FileName[f]) })

\* The places of name where "_surface" starts.
SurfaceAt(name) ==
    { p \in 1..(Len(name) - 7) :
        SubSeq(name, p, p + 7) = << "_", "s", "u", "r", "f", "a", "c", "e" >> }

\* lines 603 and 607: re.match(r"co2_(?P<station_code>.*)_surface.*", f).
\* The match starts at the first character; the group is greedy, so it runs
\* to the last "_surface" of the name; without a match the result is None.
re_match(name) ==
    LET ends == { p \in SurfaceAt(name) : p >= 5 }
    IN  IF Len(name) >= 4 /\ SubSeq(name, 1, 4) = << "c", "o", "2", "_" >> /\ ends # {}
        THEN [none |-> FALSE, station_code |-> SubSeq(name, 5, Max(ends) - 1)]
        ELSE NoneRec

RECURSIVE build_dict(_, _)
\* lines 605-611: the loop over the file names; None['station_code'] raises
\* TypeError and ends the call.
build_dict(filenames, dict_to_build) ==
    IF filenames = << >> THEN [ok |-> TRUE, dict |-> dict_to_build]
    ELSE LET f == Head(filenames)
             m == re_match(FileName[f])
         IN  IF m = NoneRec THEN [ok |-> FALSE, error |-> Raise("TypeError", {})]
             ELSE LET result == m.station_code
                  IN  build_dict(Tail(filenames),
                                 IF result \notin DOMAIN dict_to_build
                                 THEN Put(dict_to_build, result, << f >>)
                                 ELSE [dict_to_build EXCEPT ![result] = Append(@, f)])

InitFilenames ==
    /\ InitCall
    /\ arg \in [ datadir : { d \in SUBSET AllFiles : Cardinality(d) <= MaxDirFiles } ]

\* lines 586-613
get_dict_of_all_station_filenames ==
    /\ pc = "call"
    /\ \E filenames \in filepath_list(arg.datadir) :
          ret' = build_dict(filenames, [k \in {} |-> << >>])
    /\ pc' = "returned"
    /\ UNCHANGED << arg, pipeline >>

NextFilenames == get_dict_of_all_station_filenames

SpecFilenames == InitFilenames /\ [][NextFilenames]_vars

-----------------------------------------------------------------------------
(* Properties of file discovery (SpecDiscovery)                            *)

\* The name starts with "co2_" and the code, and ends with ".nc" after them.
NameIsOfStation(name, code) ==
    LET prefix == << "c", "o", "2", "_" >> \o code
        suffix == << ".", "n", "c" >>
    IN  /\ Len(name) >= Len(prefix) + Len(suffix)
        /\ SubSeq(name, 1, Len(prefix)) = prefix
        /\ SubSeq(name, Len(name) - Len(suffix) + 1, Len(name)) = suffix

\* C4: discovery for station code c returns exactly the files named
\* co2_<c>*.nc, case-sensitively, each once, and the empty list when none
\* matches: with only co2_mlo_surface-insitu_1_ccgg_event.nc in the
\* directory, 'mlo' finds that file and 'xyz' finds nothing.
C4_DiscoveryExact ==
    pc = "returned" =>
        /\ Range(ret.file_list) =
              { f \in arg.dir : NameIsOfStation(FileName[f], Chars[arg.stationcode]) }
        /\ Len(ret.file_list) = Cardinality(Range(ret.file_list))
        /\ (arg.dir = {"mlo_event"} /\ arg.stationcode = "mlo")
              => ret.file_list = << "mlo_event" >>
        /\ (arg.dir = {"mlo_event"} /\ arg.stationcode = "xyz")
              => ret.file_list = << >>
        /\ arg.stationcode = "mlo" => "MLO_upper" \notin Range(ret.file_list)

C4_Witness ==
    /\ pc = "returned"
    /\ arg.stationcode = "mlo"
    /\ arg.dir = {"mlo_event", "MLO_upper", "mlo_txt", "xco2", "brw_event"}
    /\ ret.file_list = << "mlo_event" >>

-----------------------------------------------------------------------------
(* Properties of get_resampled_dataframe (SpecResample)                    *)

InWindow(t) == arg.window[1] <= t /\ t <= arg.window[2]

ArgRows == arg.dataset_obs.rows

TimesOf(rows) == { rows[i].time : i \in DOMAIN rows }

\* C8: the window selection keeps exactly the rows with
\* timestart <= time <= timeend, only the fields time and co2, and of rows
\* sharing a timestamp the first; a row at 2001-01-01 is outside the window
\* 2000-01-01..2000-12-31.
C8_SelectBetween ==
    pc = "returned" =>
        LET sub == ret.ds_sub_obs
        IN  /\ TimesOf(sub) = { t \in TimesOf(ArgRows) : InWindow(t) }
            /\ \A i \in DOMAIN sub : DOMAIN sub[i] = {"time", "co2"}
            /\ \A i, j \in DOMAIN sub : i < j => sub[i].time < sub[j].time
            /\ \A i \in DOMAIN sub :
                 LET first == Min({ k \in DOMAIN ArgRows : ArgRows[k].time = sub[i].time })
                 IN  sub[i].co2 = ArgRows[first].co2
            /\ arg.window = << 20000101, 20001231 >> => 20010101 \notin TimesOf(sub)

C8_Witness ==
    /\ pc = "returned"
    /\ arg.window = << 20000101, 20001231 >>
    /\ Len(ArgRows) = 3
    /\ ArgRows[1].time = 20000115 /\ ArgRows[1].co2 = 412
    /\ ArgRows[2].time = 20000115 /\ ArgRows[2].co2 = 410
    /\ ArgRows[3].time = 20010101
    /\ ret.ds_sub_obs = << [time |-> 20000115, co2 |-> 412] >>

\* The rows of the window that fall in calendar month m.
InMonth(rows, m) == SelectSeq(rows, LAMBDA r : r.time \div 100 = m)

\* C9: every observation of the window is counted in the calendar month that
\* contains it; each month with observations appears once, labelled with its
\* first day and valued with the arithmetic mean of its observations (410,
\* 412, 414 in January 2000 give 412 at 2000-01-01); a month without
\* observations does not appear at all.
C9_MonthlyMean ==
    (pc = "returned" /\ ret.ok) =>
        LET sub == ret.ds_sub_obs
            res == ret.df_prepd_obs_resamp
        IN  /\ \A i \in DOMAIN sub :
                 \E k \in DOMAIN res : res[k].time = (sub[i].time \div 100) * 100 + 1
            /\ \A k \in DOMAIN res :
                 LET m    == res[k].time \div 100
                     obs  == InMonth(sub, m)
                     mean == res[k].obs_resampled_resolution
                 IN  /\ res[k].time % 100 = 1
                     /\ obs # << >>
                     /\ mean # NaN
                     /\ mean[1] * Len(obs) = mean[2] * Sum(Column(obs, "co2"))
            /\ \A k, l \in DOMAIN res : k # l => res[k].time # res[l].time
            /\ (sub = << [time |-> 20000101, co2 |-> 410],
                         [time |-> 20000115, co2 |-> 412],
                         [time |-> 20000131, co2 |-> 414] >>)
                 => res = << [time |-> 20000101, obs_resampled_resolution |-> << 412, 1 >>] >>

\* Observations in January and March 2000, none in February.
C9_Witness ==
    /\ pc = "returned"
    /\ ret.ok
    /\ TimesOf(ret.ds_sub_obs) = {20000101, 20000131, 20000310}
    /\ TimesOf(ret.df_prepd_obs_resamp) = {20000101, 20000301}

-----------------------------------------------------------------------------
(* Properties of the recipes (Spec)                                        *)

\* The station code the options ask for.
AskedCode ==
    IF options.station_code = None THEN station_code_default ELSE options.station_code

Ended == pc \in {"done", "raised", "exit"}

\* Nothing of the pipeline ran after the option parsing.
StoppedAtParsing ==
    /\ pc = "exit"
    /\ error.kind = "SystemExit"
    /\ trace = {"parse"}
    /\ stepA = NoneRec
    /\ df = NoneRec

\* C1: run_recipe_for_timeseries with a station_code that is no key of the
\* registry ends with SystemExit in the option parsing, before any file
\* discovery, loading or resampling, and returns no Collection.
C1_UnknownStationExits ==
    (recipe = "timeseries" /\ pc # "parse" /\ AskedCode \notin StationKeys)
        => StoppedAtParsing

C1_Witness ==
    /\ recipe = "timeseries"
    /\ pc = "exit"
    /\ options.station_code = "asdkjhfasg"
    /\ options.start_yr = Y2000
    /\ options.end_yr = Y2001

\* C2: run_recipe_for_timeseries with a malformed or out-of-range year string
\* for start_yr or end_yr ends with SystemExit instead of loading or
\* resampling, also when the station code and the directory are valid.
C2_BadYearExits ==
    (/\ recipe = "timeseries"
     /\ pc # "parse"
     /\ ~(valid_year_string(options.start_yr) /\ valid_year_string(options.end_yr)))
        => StoppedAtParsing

C2_Witness ==
    /\ recipe = "timeseries"
    /\ pc = "exit"
    /\ options.station_code = "mlo"
    /\ options.start_yr = Y198012
    /\ options.end_yr = Y201042
    /\ "mlo_event" \in datadir

\* The station has files in the directory and all have altitude in metres.
ValidFiles(code) ==
    /\ GlobSet(datadir, code) # {}
    /\ \A f \in GlobSet(datadir, code) : FileAltUnits[f] = "m"

ValidRequest ==
    /\ recipe = "timeseries"
    /\ AskedCode \in StationKeys
    /\ ValidFiles(AskedCode)
    /\ valid_year_string(options.start_yr)
    /\ valid_year_string(options.end_yr)
    /\ DecimalValue(options.start_yr) <= DecimalValue(options.end_yr)

\* The recipe returned, every time of the table is in start_yr..end_yr and
\* the original-resolution column has a value somewhere.
CompletedInRange ==
    /\ pc = "done"
    /\ df # NoneRec
    /\ \A i \in DOMAIN df.rows :
         /\ DecimalValue(options.start_yr) <= df.rows[i].time \div 10000
         /\ df.rows[i].time \div 10000 <= DecimalValue(options.end_yr)
    /\ \E i \in DOMAIN df.rows : df.rows[i].obs_original_resolution # NaN

ObservationInWindow ==
    \E f \in GlobSet(datadir, AskedCode) : \E i \in DOMAIN FileObs[f] :
        /\ opts.start_datetime <= FileObs[f][i].time
        /\ FileObs[f][i].time <= opts.end_datetime

DataDirPath == "ref_data"

\* The loop of _load_stations_by_namedict stopped at a station without files.
StoppedAtStationWithoutFiles ==
    /\ pc = "raised"
    /\ "preprocess" \in trace
    /\ stations # << >>
    /\ GlobSet(datadir, Head(stations)) = {}

\* C5: when no file is discovered for a station, loading it fails with a
\* MissingDataError that names the station and the directory, and no dataset
\* entry is made for the station.
C5_MissingDataNamesStation ==
    StoppedAtStationWithoutFiles =>
        /\ error.kind = "MissingDataError"
        /\ Head(stations) \in error.names
        /\ DataDirPath \in error.names
        /\ Head(stations) \notin DOMAIN ds_obs_dict

\* C6: when the loaded dataset of a station has altitude units other than
\* 'm', _load_stations_by_namedict fails with a validation error at that
\* station; the station's metadata is not stored and no dataset is returned.
C6_BadUnitsFail ==
    [][ (/\ pc = "load"
         /\ stations # << >>
         /\ Head(stations) \in DOMAIN ds_obs_dict'
         /\ ds_obs_dict'[Head(stations)].alt_units # "m")
        => (/\ pc' = "raised"
            /\ error'.kind = "ValueError"
            /\ stations' = stations
            /\ registry' = registry
            /\ stepA' = NoneRec) ]_vars

C6_Witness ==
    /\ pc = "raised"
    /\ error.kind = "ValueError"
    /\ Head(stations) = "brw"
    /\ ds_obs_dict["brw"].alt_units = "km"
    /\ DOMAIN registry["brw"] = {"name"}
    /\ stepA = NoneRec

\* Every station of the registry was asked for.
AllStationsRequested ==
    \/ recipe = "annual"
    \/ (recipe = "preprocess" /\ options.station_name.kind = "none")

\* C7: a load over all registry stations skips a station without files and
\* loads the others; a load of a single requested station without files
\* fails.
C7_MissingStationSkipped ==
    /\ AllStationsRequested => ~(pc = "raised" /\ error.kind = "MissingDataError")
    /\ (/\ recipe = "timeseries"
        /\ Ended
        /\ AskedCode \in StationKeys
        /\ valid_year_string(options.start_yr)
        /\ valid_year_string(options.end_yr)
        /\ GlobSet(datadir, AskedCode) = {})
          => pc = "raised"

-----------------------------------------------------------------------------
(* Properties of the normalisation (Spec)                                  *)

\* The place of a step among the steps applied to a dataset, 0 when absent.
StepAt(ds, step) ==
    IF \E i \in DOMAIN ds.steps : ds.steps[i] = step
    THEN CHOOSE i \in DOMAIN ds.steps : ds.steps[i] = step
    ELSE 0

\* C11: every dataset of stepA_original_datasets was produced by the
\* normalisation steps in the order set_coords, sortby, swap_dims,
\* ensure_dataset_datetime64, rename, co2_molfrac_to_ppm; in particular the
\* coordinates are set and the rows sorted before the dimension is swapped,
\* and the dimension is swapped before the units are converted.
C11_NormalisationOrder ==
    stepA # NoneRec =>
        \A k \in DOMAIN stepA.datasets :
            LET ds == stepA.datasets[k]
            IN  /\ ds.steps = << "set_coords", "sortby", "swap_dims",
                                 "ensure_dataset_datetime64", "rename",
                                 "co2_molfrac_to_ppm" >>
                /\ 0 < StepAt(ds, "set_coords")
                /\ StepAt(ds, "set_coords") < StepAt(ds, "swap_dims")
                /\ 0 < StepAt(ds, "sortby")
                /\ StepAt(ds, "sortby") < StepAt(ds, "swap_dims")
                /\ StepAt(ds, "swap_dims") < StepAt(ds, "co2_molfrac_to_ppm")
                /\ ds.coords # {} /\ ds.dim = "time" /\ ds.timeenc = "datetime64"
                /\ ds.var = "co2"

\* Every station of the registry was loaded and normalised.
C11_Witness ==
    /\ pc = "done"
    /\ stepA # NoneRec
    /\ DOMAIN stepA.datasets = StationKeys
    /\ Len(stepA.datasets["mlo"].steps) = 6

\* The value of row i of a dataset as a fraction: mantissa times 10^exp.
ValueOf(ds, i) ==
    LET mantissa == IF ds.var = "co2" THEN ds.rows[i].co2 ELSE ds.rows[i].value
    IN  IF ds.exp >= 0 THEN Frac(mantissa * 10^(ds.exp), 1)
        ELSE Frac(mantissa, 10^(-ds.exp))

\* The mole fraction v * 1e-6 times 1e6.
TimesMillion(v) == Frac(v * 10^6, 10^6)

\* The observations, as the files hold them, of the files the station's
\* pattern matches, each with its file and its place in the file.
RawObs(code) ==
    UNION { { [file |-> f, at |-> i, time |-> FileObs[f][i].time,
               value |-> FileObs[f][i].value] : i \in DOMAIN FileObs[f] }
            : f \in GlobSet(datadir, code) }

\* C12: in every dataset of stepA_original_datasets the co2 of each row is
\* the file's mole fraction times 1e6, the conversion having been applied
\* exactly once in the load (the mole fraction 0.000412 of Mauna Loa on
\* 2000-01-15 is stored as 412 ppm); before the normalisation the loaded
\* values are still mole fractions.
C12_PpmOnce ==
    /\ stepA # NoneRec =>
          \A k \in DOMAIN stepA.datasets :
              LET ds == stepA.datasets[k]
              IN  /\ Cardinality({ i \in DOMAIN ds.steps :
                                      ds.steps[i] = "co2_molfrac_to_ppm" }) = 1
                  /\ Len(ds.rows) = Cardinality(RawObs(k))
                  /\ \A i \in DOMAIN ds.rows :
                        \E o \in RawObs(k) :
                            /\ o.time = ds.rows[i].time
                            /\ ValueOf(ds, i) = TimesMillion(o.value)
                  /\ (k = "mlo" /\ "mlo_event" \in datadir) =>
                        \E i \in DOMAIN ds.rows :
                            /\ ds.rows[i].time = 20000115
                            /\ ValueOf(ds, i) = << 412, 1 >>
    /\ (pc = "load" /\ stepA = NoneRec) =>
          \A k \in DOMAIN ds_obs_dict :
              \A i \in DOMAIN ds_obs_dict[k].rows :
                  ValueOf(ds_obs_dict[k], i) = Frac(ds_obs_dict[k].rows[i].value, 10^6)

\* Mauna Loa loaded in a second invocation of the process: the raw 0.000412
\* of 2000-01-15 is 412 ppm.
C12_Witness ==
    /\ runs = 2
    /\ pc = "done"
    /\ stepA # NoneRec
    /\ "mlo" \in DOMAIN stepA.datasets
    /\ "mlo_event" \in datadir
    /\ \E i \in DOMAIN stepA.datasets["mlo"].rows :
          /\ stepA.datasets["mlo"].rows[i].time = 20000115
          /\ ValueOf(stepA.datasets["mlo"], i) = << 412, 1 >>

-----------------------------------------------------------------------------
(* Properties of the station metadata (SpecMetadata)                       *)

\* The fraction q is the arithmetic mean of the sequence s.
IsMeanOf(q, s) == q[2] > 0 /\ q[1] * Len(s) = q[2] * Sum(s)

-----------------------------------------------------------------------------
(* Reproducibility of the recipes (Spec)                                   *)

\* What the recipe's station yields when the file system enumerates its files
\* in the order fl: load, units check, normalisation, resampling.
OutputFor(fl) ==
    LET loaded == dataset_from_filelist(fl)
    IN  IF ~loaded.ok THEN [ok |-> FALSE, error |-> loaded.error]
        ELSE IF ~check_altitude_unit(loaded.ds)
        THEN [ok |-> FALSE, error |-> Raise("ValueError", {loaded.ds.alt_units})]
        ELSE get_resampled_dataframe(Wrangle(loaded.ds),
                                     opts.start_datetime, opts.end_datetime)

\* C14: the table a recipe returns is the one every enumeration order of the
\* station's files yields: a second run over the same files and options
\* returns the identical series, also when two files hold observations with
\* the same timestamp and different values.
C14_OrderIndependent ==
    (pc = "done" /\ recipe \in {"timeseries", "annual"}) =>
        \A fl \in Glob(datadir, opts.station_code) :
            /\ OutputFor(fl).ok
            /\ OutputFor(fl).df = df.rows

-----------------------------------------------------------------------------
(* Properties of the registry (Spec)                                       *)

LowerLetters ==
    { "a", "b", "c", "d", "e", "f", "g", "h", "i", "j", "k", "l", "m",
      "n", "o", "p", "q", "r", "s", "t", "u", "v", "w", "x", "y", "z" }

UpperLetters ==
    { "A", "B", "C", "D", "E", "F", "G", "H", "I", "J", "K", "L", "M",
      "N", "O", "P", "Q", "R", "S", "T", "U", "V", "W", "X", "Y", "Z" }

\* str.islower(): no upper-case character and at least one lower-case one.
IsLower(k) ==
    /\ \A i \in DOMAIN k : k[i] \notin UpperLetters
    /\ \E i \in DOMAIN k : k[i] \in LowerLetters

\* The keys of the literal are lower-case strings of 2 to 6 characters, none
\* is written twice and 'mlo' is one of them.
KeysWellFormed ==
    /\ \A i \in DOMAIN station_dict_keys :
          /\ IsLower(station_dict_keys[i])
          /\ Len(station_dict_keys[i]) \in 2..6
    /\ Cardinality(Range(station_dict_keys)) = Len(station_dict_keys)
    /\ << "m", "l", "o" >> \in Range(station_dict_keys)

\* The codes the model carries are keys of the literal, in its order.
ModelledKeysAreKeys ==
    \A i, j \in DOMAIN StationCodes :
        i < j => \E m, n \in DOMAIN station_dict_keys :
                    /\ m < n
                    /\ station_dict_keys[m] = Chars[StationCodes[i]]
                    /\ station_dict_keys[n] = Chars[StationCodes[j]]

\* C15: every key of the station registry is a lower-case string of 2 to 6
\* characters, no key occurs twice and 'mlo' is a key; the keys of the
\* registry the process holds stay the modelled keys of the literal at every
\* moment, loads adding and removing none.
C15_RegistryKeys ==
    /\ KeysWellFormed
    /\ ModelledKeysAreKeys
    /\ DOMAIN registry = StationKeys
    /\ "mlo" \in DOMAIN registry

\* The registry after a load has enriched the entry of Mauna Loa.
C15_Witness ==
    /\ pc = "done"
    /\ "lat" \in DOMAIN registry["mlo"]
    /\ DOMAIN registry = StationKeys

-----------------------------------------------------------------------------
(* Properties of surface_trends (SpecTrends)                               *)

\* C16: the result of surface_trends holds the model and the observed series
\* of the confrontation, on one time axis, whatever the options; it holds
\* 'diff' exactly when the difference option is set, and diff is then model
\* minus obs at every time point the two series share.
C16_TrendsOutput ==
    pc = "returned" =>
        /\ {"model", "obs"} \subseteq DOMAIN ret
        /\ ret.model = arg.looper.ydata_mdl
        /\ ret.obs = arg.looper.ydata_obs
        /\ DOMAIN ret.model = DOMAIN ret.obs
        /\ ("diff" \in DOMAIN ret) <=> (arg.difference = "True")
        /\ DOMAIN ret \subseteq {"model", "obs", "diff"}
        /\ "diff" \in DOMAIN ret =>
              /\ DOMAIN ret.diff = DOMAIN ret.model \cap DOMAIN ret.obs
              /\ \A t \in DOMAIN ret.diff : ret.diff[t] = ret.model[t] - ret.obs[t]

\* The difference asked for, over three months with the model above, equal
\* to and below the observations.
C16_Witness ==
    /\ pc = "returned"
    /\ arg.difference = "True"
    /\ DOMAIN ret.diff = TrendTimes
    /\ ret.diff[20000101] = 1
    /\ ret.diff[20000201] = 0
    /\ ret.diff[20000301] = -2

-----------------------------------------------------------------------------
(* Properties of get_dict_of_all_station_filenames (SpecFilenames)         *)

\* str.lower() of one character.
LowerChar(c) ==
    CASE c = "A" -> "a" []
         c = "B" -> "b" []
         c = "C" -> "c" []
         c = "D" -> "d" []
         c = "E" -> "e" []
         c = "F" -> "f" []
         c = "G" -> "g" []
         c = "H" -> "h" []
         c = "I" -> "i" []
         c = "J" -> "j" []
         c = "K" -> "k" []
         c = "L" -> "l" []
         c = "M" -> "m" []
         c = "N" -> "n" []
         c = "O" -> "o" []
         c = "P" -> "p" []
         c = "Q" -> "q" []
         c = "R" -> "r" []
         c = "S" -> "s" []
         c = "T" -> "t" []
         c = "U" -> "u" []
         c = "V" -> "v" []
         c = "W" -> "w" []
         c = "X" -> "x" []
         c = "Y" -> "y" []
         c = "Z" -> "z" []
         OTHER -> c

Lower(k) == [ i \in DOMAIN k |-> LowerChar(k[i]) ]

\* The surface files of the directory: *surface*.nc.
SurfaceFiles(dir) ==
    { f \in dir : SurfaceAt(FileName[f]) # {} /\ NameIsOfStation(FileName[f], << >>) }

\* The station code of a name co2_<station_code>[_<suffix>]_surface*.nc: what
\* stands between "co2_" and the next "_".
ConventionCode(name) ==
    LET stop == Min({ p \in 5..Len(name) : name[p] = "_" })
    IN  SubSeq(name, 5, stop - 1)

\* C17: get_dict_of_all_station_filenames returns a dict in which every
\* surface file of the directory is in the list of exactly one key, that key
\* being the file's station code in lower case
\* (co2_mlo_surface-insitu_1_ccgg_event.nc under 'mlo'), and no list is empty.
C17_FilenamesByStation ==
    pc = "returned" =>
        /\ ret.ok
        /\ \A f \in SurfaceFiles(arg.datadir) :
              /\ Cardinality({ k \in DOMAIN ret.dict : f \in Range(ret.dict[k]) }) = 1
              /\ \A k \in DOMAIN ret.dict :
                    f \in Range(ret.dict[k]) => k = Lower(ConventionCode(FileName[f]))
        /\ \A k \in DOMAIN ret.dict :
              /\ ret.dict[k] # << >>
              /\ Range(ret.dict[k]) \subseteq SurfaceFiles(arg.datadir)
        /\ "mlo_event" \in arg.datadir =>
              /\ << "m", "l", "o" >> \in DOMAIN ret.dict
              /\ "mlo_event" \in Range(ret.dict[<< "m", "l", "o" >>])

-----------------------------------------------------------------------------
(* The order of the normalised timestamps (Spec)                           *)

\* C18 as stated: in every dataset of stepA_original_datasets the timestamps
\* are strictly increasing, no two rows sharing one, also when the dataset is
\* concatenated from several files.
C18_AsStated ==
    stepA # NoneRec =>
        \A k \in DOMAIN stepA.datasets :
            LET rows == stepA.datasets[k].rows
            IN  \A i, j \in DOMAIN rows : i < j => rows[i].time < rows[j].time

\* C18, amended: in every dataset of stepA_original_datasets the timestamps
\* are in non-decreasing order, also when the dataset is concatenated from
\* several files; every loaded row is kept, so the order is strict exactly
\* when no two observations of the station's files share a timestamp.
C18_TimesAscending ==
    stepA # NoneRec =>
        \A k \in DOMAIN stepA.datasets :
            LET rows == stepA.datasets[k].rows
            IN  /\ \A i, j \in DOMAIN rows : i < j => rows[i].time <= rows[j].time
                /\ Len(rows) = Cardinality(RawObs(k))
                /\ (\A i, j \in DOMAIN rows : i < j => rows[i].time < rows[j].time)
                      <=> (\A o, q \in RawObs(k) : o.time = q.time => o = q)

\* Mauna Loa from two files that both hold an observation of 2000-01-01.
C18_Witness ==
    /\ stepA # NoneRec
    /\ "mlo" \in DOMAIN stepA.datasets
    /\ Len(file_list) = 2
    /\ \E i \in DOMAIN stepA.datasets["mlo"].rows :
          /\ i > 1
          /\ stepA.datasets["mlo"].rows[i].time = 20000101
          /\ stepA.datasets["mlo"].rows[i + 1].time = 20000101
          /\ stepA.datasets["mlo"].rows[i - 1].time = 19991215

-----------------------------------------------------------------------------
(* The order of the combined table (SpecResample)                          *)

\* C19: in the table get_resampled_dataframe returns, the time column
\* increases from the first row to the last, also when the timestamps of the
\* observations and the month starts of the resampled series interleave.
C19_TimeMonotonic ==
    (pc = "returned" /\ ret.ok) =>
        \A i, j \in DOMAIN ret.df : i < j => ret.df[i].time <= ret.df[j].time

-----------------------------------------------------------------------------
(* Resampling of monthly data (SpecResample)                               *)

\* The series has its observations on the first of a month, one a month at
\* most.
IsMonthly(rows) ==
    /\ \A i \in DOMAIN rows : rows[i].time % 100 = 1
    /\ \A i, j \in DOMAIN rows : i # j => MonthOf(rows[i].time) # MonthOf(rows[j].time)

\* C20: the monthly-mean resampling of a series that is monthly already
\* (at most one observation per calendar month, on the 1st) gives the same
\* timestamps with the same values.
C20_MonthlyIdempotent ==
    (pc = "returned" /\ ret.ok /\ IsMonthly(ret.ds_sub_obs)) =>
        LET sub == ret.ds_sub_obs
            res == ret.df_prepd_obs_resamp
        IN  /\ Len(res) = Len(sub)
            /\ \A i \in DOMAIN sub :
                  /\ res[i].time = sub[i].time
                  /\ res[i].obs_resampled_resolution = << sub[i].co2, 1 >>

\* January and March 2000 observed on the 1st, February not at all.
C20_Witness ==
    /\ pc = "returned"
    /\ ret.ok
    /\ IsMonthly(ret.ds_sub_obs)
    /\ TimesOf(ret.ds_sub_obs) = {20000101, 20000301}
    /\ TimesOf(ret.df_prepd_obs_resamp) = {20000101, 20000301}
    /\ ret.ds_sub_obs[1].co2 # ret.ds_sub_obs[2].co2

-----------------------------------------------------------------------------
(* Ownership of the registry (Spec)                                        *)

\* C21: the registry is not shared between invocations: whenever a new
\* invocation starts (and until it loads stations itself) the entries of
\* the module-level station_dict, which the entries of every instance's
\* station_dict are, hold the static name only, whatever earlier
\* invocations of the process loaded.
C21_RegistryNotShared ==
    pc \in {"idle", "parse", "new", "preprocess"} => registry = StaticRegistry

-----------------------------------------------------------------------------
(* The stations of a preprocess (Spec)                                     *)

\* The set of station codes the caller asked preprocess for.
RequestedCodes ==
    CASE recipe = "timeseries" -> { opts.station_code }
      [] recipe = "annual"     -> StationKeys
      [] OTHER ->
           LET n == options.station_name
           IN  CASE n.kind = "str"  -> { n.code }
                 [] n.kind = "list" -> IF n.codes = << >> THEN StationKeys
                                       ELSE Range(n.codes)
                 [] OTHER           -> StationKeys

\* C22: after a successful preprocess the keys of stepA_original_datasets
\* are exactly the requested station codes (a string counts as a list of
\* one, no station_name as every registry code), each key once and mapped
\* to one normalised dataset.
C22_RequestedStations ==
    stepA # NoneRec =>
        /\ DOMAIN stepA.datasets = RequestedCodes
        /\ \A k \in DOMAIN stepA.datasets :
              /\ DOMAIN stepA.datasets[k].rows = 1..Cardinality(RawObs(k))
              /\ stepA.datasets[k].var = "co2"

\* preprocess with the list ['brw', 'mlo'] returned.
C22_Witness ==
    /\ pc = "done"
    /\ recipe = "preprocess"
    /\ options.station_name.kind = "list"
    /\ stepA # NoneRec
    /\ DOMAIN stepA.datasets = {"brw", "mlo"}

-----------------------------------------------------------------------------
(* Separation of the stations' files (SpecDiscovery)                       *)

\* The name is co2_<code>_surface*.nc.
IsSurfaceFileOf(name, code) ==
    NameIsOfStation(name, code \o << "_", "s", "u", "r", "f", "a", "c", "e" >>)

\* C23: the file list discovered for a registry code c holds no file of a
\* different registry station d, that is no file named co2_<d>_surface*.nc,
\* also when c is the beginning of d as 'inx' is of 'inx05'.
C23_NoForeignFiles ==
    (pc = "returned" /\ arg.stationcode \in StationKeys) =>
        \A f \in Range(ret.file_list) :
            \A d \in StationKeys \ { arg.stationcode } :
                ~IsSurfaceFileOf(FileName[f], Chars[d])

-----------------------------------------------------------------------------
(* The time range of the combined table (SpecResample)                     *)

\* C24 as stated: every row of the table get_resampled_dataframe returns has
\* timestart <= time <= timeend, also for bounds in the middle of a month:
\* no month-start label of a resampled bin lies before timestart.
C24_AsStated ==
    (pc = "returned" /\ ret.ok) =>
        \A i \in DOMAIN ret.df : InWindow(ret.df[i].time)

\* C24, amended: every row of the table has a time from the first day of
\* timestart's month to timeend; a row with an original-resolution value
\* has timestart <= time <= timeend; a row before timestart is the
\* month-start label of the resampled bin of timestart's own month.
C24_RowsInRange ==
    (pc = "returned" /\ ret.ok) =>
        \A i \in DOMAIN ret.df :
            LET row == ret.df[i]
            IN  /\ MonthStart(MonthOf(arg.window[1])) <= row.time
                /\ row.time <= arg.window[2]
                /\ row.obs_original_resolution # NaN => InWindow(row.time)
                /\ ~InWindow(row.time) =>
                      /\ row.obs_resampled_resolution # NaN
                      /\ row.time = MonthStart(MonthOf(arg.window[1]))

\* A window starting on 2000-01-15 with an observation later in January: the
\* resampled row is labelled 2000-01-01.
C24_Witness ==
    /\ pc = "returned"
    /\ ret.ok
    /\ arg.window = << 20000115, 20001231 >>
    /\ \E i \in DOMAIN ret.df :
          /\ ret.df[i].time = 20000101
          /\ ret.df[i].obs_resampled_resolution # NaN
          /\ ret.df[i].obs_original_resolution = NaN
    /\ \E i \in DOMAIN ArgRows :
          InWindow(ArgRows[i].time) /\ MonthOf(ArgRows[i].time) = 200001

-----------------------------------------------------------------------------
(* The registry after a failed load (Spec)                                 *)

\* C25: when _load_stations_by_namedict raises while processing a station
\* (no file found for it, or its altitude units are not 'm'), the station
\* registry is as it was before the call: no other station's entry has gained
\* lat, lon or alts from the failed call.  Before the first invocation's call
\* the registry is the module's literal.
C25_RegistryKeptOnFailure ==
    (runs = 1 /\ pc = "raised" /\ "preprocess" \in trace) =>
        registry = StaticRegistry

====
